---- MODULE Spec2Model ----
(***************************************************************************)
(* FactTrace front end: the Home component (frontend/src/app/page.tsx),    *)
(* its streaming verdict consumer runVerification, and the values it folds *)
(* (frontend/src/types/verdict.ts).                                        *)
(*                                                                         *)
(* A text is a sequence of one-character strings.  The JSON payload of a   *)
(* record is abbreviated to four characters (JsonTable lists the texts     *)
(* that parse and the values they parse to); the "data: " prefix and the   *)
(* blank-line delimiter are kept character by character.                   *)
(* Confidence 0.85 is written 85 (hundredths).                             *)
(***************************************************************************)
EXTENDS Integers, Sequences, FiniteSets, TLC

\* ------------------------------------------------------------------ bounds
MaxSessions == 2
MaxRecords == 2
MaxFramingPieces == 4
MaxRequests == 2

\* ------------------------------------------------------------- data model
Null == [null |-> TRUE]
NoError == "<null>"

M1 == [agent |-> "Fact-Checker", message |-> "m1"]
M2 == [agent |-> "Sceptic", message |-> "m2"]
M3 == [agent |-> "Judge", message |-> "m3"]

A1 == [claim_analysis |-> "ca", truth_analysis |-> "ta"]

Decisions == {"faithful", "mutated", "uncertain"}

\* the complete Verdict the jury ships inside a `verdict` record
V1 ==
  [claim |-> "c1", truth |-> "t1", conversation |-> <<M2, M3>>,
   summary |-> "s1", decision |-> "mutated", confidence |-> 85,
   disclaimers |-> <<"d1">>, analysis |-> A1]

\* the Verdict the backend holds from an earlier run (GET /api/verdict)
V0 ==
  [claim |-> "c0", truth |-> "t0", conversation |-> <<M3>>,
   summary |-> "s0", decision |-> "faithful", confidence |-> 60,
   disclaimers |-> <<>>, analysis |-> Null]

StoredVerdicts == {V0}

\* what the user can have typed in the claim and truth boxes
ClaimInputs == {"", " ", "c1"}
TruthInputs == {"", "t1"}

Trim(str) == IF str = " " THEN "" ELSE str

Seed(c, t) ==
  [claim |-> c, truth |-> t, conversation |-> <<>>, summary |-> "",
   decision |-> "uncertain", confidence |-> 0, disclaimers |-> <<>>,
   analysis |-> Null]

\* ---------------------------------------------------------------- framing
NL == "\n"
Delim == <<NL, NL>>
Prefix == <<"d", "a", "t", "a", ":", " ">>

\* JSON texts that parse, with the value JSON.parse gives for each
JsonTable ==
  { << <<"{", "a", "1", "}">>, [type |-> "agent", data |-> M1] >>,
    << <<"{", "a", "2", "}">>, [type |-> "agent", data |-> M2] >>,
    << <<"{", "n", "1", "}">>, [type |-> "analysis", data |-> A1] >>,
    << <<"{", "v", "1", "}">>, [type |-> "verdict", data |-> V1] >>,
    << <<"{", "v", "0", "}">>, [type |-> "verdict", data |-> Null] >>,
    << <<"{", "p", "1", "}">>, [type |-> "ping", data |-> Null] >> }

ParseError == [throws |-> TRUE]

JSONParse(text) ==
  IF \E p \in JsonTable : p[1] = text
  THEN (CHOOSE p \in JsonTable : p[1] = text)[2]
  ELSE ParseError

\* a JSON text cut short, as a record whose payload does not parse
Malformed == <<"{", "a", "1">>

RECURSIVE IndexOfDelim(_, _)
\* first i >= from with text[i..i+1] = "\n\n", 0 when there is none
IndexOfDelim(text, from) ==
  IF from + 1 > Len(text) THEN 0
  ELSE IF text[from] = NL /\ text[from + 1] = NL THEN from
  ELSE IndexOfDelim(text, from + 1)

RECURSIVE Split(_)
\* String.prototype.split('\n\n')
Split(text) ==
  LET i == IndexOfDelim(text, 1)
  IN IF i = 0 THEN <<text>>
     ELSE <<SubSeq(text, 1, i - 1)>> \o Split(SubSeq(text, i + 2, Len(text)))

AllButLast(seq) == SubSeq(seq, 1, Len(seq) - 1)
Last(seq) == seq[Len(seq)]

StartsWith(line, pre) ==
  /\ Len(line) >= Len(pre)
  /\ SubSeq(line, 1, Len(pre)) = pre

Slice(line, n) == SubSeq(line, n + 1, Len(line))

\* ------------------------------------------------------- the event fold
\* the verdict branch merging instead of replacing
ApplyEventMerge(prev, event) ==
  IF event.type = "agent"
  THEN IF prev = Null THEN prev
       ELSE [prev EXCEPT !.conversation = Append(@, event.data)]
  ELSE IF event.type = "analysis"
  THEN IF prev = Null THEN Null
       ELSE [prev EXCEPT !.analysis = event.data]
  ELSE IF event.type = "verdict"
  THEN IF prev = Null THEN event.data
       ELSE [event.data EXCEPT !.conversation = prev.conversation \o @]
  ELSE prev

\* the agent branch putting the new message first
ApplyEventPrepend(prev, event) ==
  IF event.type = "agent"
  THEN IF prev = Null THEN prev
       ELSE [prev EXCEPT !.conversation = <<event.data>> \o @]
  ELSE IF event.type = "analysis"
  THEN IF prev = Null THEN Null
       ELSE [prev EXCEPT !.analysis = event.data]
  ELSE IF event.type = "verdict"
  THEN event.data
  ELSE prev

\* the analysis branch rebuilding the Verdict around the new analysis
ApplyEventAnalysisResets(prev, event) ==
  IF event.type = "agent"
  THEN IF prev = Null THEN prev
       ELSE [prev EXCEPT !.conversation = Append(@, event.data)]
  ELSE IF event.type = "analysis"
  THEN IF prev = Null THEN [Seed("", "") EXCEPT !.analysis = event.data]
       ELSE [Seed(prev.claim, prev.truth) EXCEPT !.analysis = event.data]
  ELSE IF event.type = "verdict"
  THEN event.data
  ELSE prev

\* an unrecognised tag treated like a verdict record
ApplyEventUnknownReplaces(prev, event) ==
  IF event.type = "agent"
  THEN IF prev = Null THEN prev
       ELSE [prev EXCEPT !.conversation = Append(@, event.data)]
  ELSE IF event.type = "analysis"
  THEN IF prev = Null THEN Null
       ELSE [prev EXCEPT !.analysis = event.data]
  ELSE event.data

\* the functional updates and the wholesale replace of the three branches
ApplyEvent(prev, event) ==
  IF event.type = "agent"
  THEN IF prev = Null THEN prev
       ELSE [prev EXCEPT !.conversation = Append(@, event.data)]
  ELSE IF event.type = "analysis"
  THEN IF prev = Null THEN Null
       ELSE [prev EXCEPT !.analysis = event.data]
  ELSE IF event.type = "verdict"
  THEN event.data
  ELSE prev

\* a parse failure resetting the transcript instead of being skipped
ApplyLineReset(prev, line) ==
  IF StartsWith(line, Prefix)
  THEN LET event == JSONParse(Slice(line, 6))
       IN IF event = ParseError
          THEN IF prev = Null THEN prev
               ELSE [prev EXCEPT !.conversation = <<>>]
          ELSE ApplyEvent(prev, event)
  ELSE prev

\* one iteration of `for (const line of lines)`
ApplyLine(prev, line) ==
  IF StartsWith(line, Prefix)
  THEN LET event == JSONParse(Slice(line, 6))
       IN IF event = ParseError THEN prev ELSE ApplyEvent(prev, event)
  ELSE prev

\* ------------------------------------------------------------------ state
VARIABLES
  verdict,     \* useState<VerdictPayload | null>
  loading,     \* useState(false), true while the mount fetch is pending
  verifying,   \* useState(false), the "still streaming" flag
  error,       \* useState<string | null>
  mountFetch,  \* position of fetchVerdict: "pending" or "done"
  sess,        \* one entry per call of runVerification that passed validation
  mounted,     \* the Home component is in the tree
  latestVerdict,  \* route.ts: let latestVerdict: VerdictPayload | null
  file,        \* route.ts: the file at RESULT_FILE_PATH
  reply,       \* route.ts: the last request handled and its response
  lastAccepted, \* history: the body of the last POST answered with 200
  requests     \* route.ts: the POST requests of a concurrent batch

pageVars == <<verdict, loading, verifying, error, mountFetch, sess, mounted>>
storeVars == <<latestVerdict, file, reply, lastAccepted, requests>>
vars == <<pageVars, storeVars>>

IdleSession ==
  [pc |-> "idle", sent |-> <<>>, body |-> <<>>, buffer |-> <<>>,
   lines |-> <<>>, extracted |-> <<>>, seed |-> Null]

\* ------------------------------------------------- what the server can send
JsonTexts == {p[1] : p \in JsonTable}

\* one record of the stream, without its terminator
Records == {Prefix \o t : t \in JsonTexts \cup {Malformed}}

RECURSIVE Terminated(_)
\* the bodies made of at most n records, each followed by a blank line
Terminated(n) ==
  IF n = 0 THEN {<<>>}
  ELSE LET shorter == Terminated(n - 1)
       IN shorter \cup {b \o r \o Delim : b \in shorter, r \in Records}

\* a last record the server never terminated
Unterminated ==
  {Prefix \o <<"{", "a", "2", "}">>, Prefix \o <<"{", "v", "1", "}">>}

Rec(text) == Prefix \o text \o Delim

\* the two three-record streams of the specification's test scenarios:
\* a malformed record between two agent records, and two agent records
\* followed by the final verdict
ScenarioBodies ==
  { Rec(<<"{", "a", "1", "}">>) \o Rec(Malformed)
      \o Rec(<<"{", "a", "2", "}">>),
    Rec(<<"{", "a", "1", "}">>) \o Rec(<<"{", "a", "2", "}">>)
      \o Rec(<<"{", "v", "1", "}">>) }

\* response bodies of POST /api/verify/stream: terminated records, possibly
\* followed by an unterminated one
ServerBodies ==
  Terminated(MaxRecords)
    \cup {b \o r : b \in Terminated(MaxRecords - 1), r \in Unterminated}
    \cup ScenarioBodies

\* the bodies used where several sessions follow one another
ShortBodies ==
  { <<>>,
    Rec(<<"{", "a", "1", "}">>),
    Rec(<<"{", "v", "1", "}">>),
    Rec(<<"{", "a", "1", "}">>) \o Rec(<<"{", "a", "2", "}">>) }

RECURSIVE Pieces(_)
\* every text made of at most n framing atoms
FramingAtoms ==
  { Prefix \o <<"{", "a", "1", "}">>, Prefix \o Malformed,
    <<":">>, <<NL>>, Delim }
Pieces(n) ==
  IF n = 0 THEN {<<>>}
  ELSE LET shorter == Pieces(n - 1)
       IN shorter \cup {b \o a : b \in shorter, a \in FramingAtoms}

\* arbitrary text streams: records, comment lines and runs of newlines
FramingBodies == Pieces(MaxFramingPieces)

\* bodies of a non-success response
Undefined == "<undefined>"
ErrorBodies ==
  { [json |-> TRUE, detail |-> "LLM quota exceeded"],
    [json |-> TRUE, detail |-> ""],
    [json |-> TRUE, detail |-> Undefined],
    [json |-> FALSE, detail |-> Undefined] }

Falsy(x) == x = "" \/ x = Undefined

MsgMissingInput == "Please enter both a claim and a truth"
MsgVerificationFailed == "Verification failed"
MsgNoReader == "Failed to read stream"
MsgConnect == "Failed to connect to backend. Is it running on port 8000?"

\* ------------------------------------------------------------------- init
NoSessions(n) == [s \in 1..n |-> IdleSession]

\* route.ts before any request: nothing in memory, no file, no response
NoFile == [exists |-> FALSE, content |-> Null]
NoReply == [op |-> "none", req |-> Null, status |-> 0, body |-> Null]

StoreInit ==
  /\ latestVerdict = Null
  /\ file = NoFile
  /\ reply = NoReply
  /\ lastAccepted = Null
  /\ requests = <<>>

Init ==
  /\ mounted = TRUE
  /\ StoreInit
  /\ verdict = Null
  /\ loading = TRUE
  /\ verifying = FALSE
  /\ error = NoError
  /\ mountFetch = "pending"
  /\ sess = NoSessions(MaxSessions)

\* a task is between two awaits: nothing else runs until it yields
Running == \E s \in DOMAIN sess : sess[s].pc = "lines"

\* the entry of a call that has returned
Ended(how) == [IdleSession EXCEPT !.pc = how]

\* ------------------------------------------------- fetchVerdict (on mount)
\* a state setter called after the component was unmounted changes nothing
Shown(old, new) == IF mounted THEN new ELSE old

FetchVerdictOk(data) ==
  /\ mountFetch = "pending"
  /\ ~Running
  /\ verdict' = Shown(verdict, data)
  /\ loading' = Shown(loading, FALSE)
  /\ mountFetch' = "done"
  /\ UNCHANGED <<mounted, storeVars, verifying, error, sess>>

\* 404, or the fetch rejects
FetchVerdictNone ==
  /\ mountFetch = "pending"
  /\ ~Running
  /\ loading' = Shown(loading, FALSE)
  /\ mountFetch' = "done"
  /\ UNCHANGED <<mounted, storeVars, verdict, verifying, error, sess>>

\* --------------------------------------------------------- runVerification
NeverDisabled == FALSE

\* the seed keeping the transcript of the Verdict it replaces
RunVerificationKeeps(s, c, t) ==
  /\ mounted
  /\ ~verifying
  /\ ~(\E r \in DOMAIN sess : sess[r].pc = "lines")
  /\ sess[s].pc = "idle"
  /\ \A r \in DOMAIN sess : r < s => sess[r].pc # "idle"
  /\ Trim(c) # "" /\ Trim(t) # ""
  /\ verifying' = TRUE
  /\ error' = NoError
  /\ verdict' = IF verdict = Null THEN Seed(c, t)
                ELSE [Seed(c, t) EXCEPT
                        !.conversation = verdict.conversation]
  /\ sess' = [sess EXCEPT ![s] = [@ EXCEPT !.pc = "awaiting",
                                           !.seed = Seed(c, t)]]
  /\ UNCHANGED <<mounted, storeVars, loading, mountFetch>>

\* the request leaving the previous error message in place
RunVerificationKeepsError(s, c, t) ==
  /\ mounted
  /\ ~verifying
  /\ ~(\E r \in DOMAIN sess : sess[r].pc = "lines")
  /\ sess[s].pc = "idle"
  /\ \A r \in DOMAIN sess : r < s => sess[r].pc # "idle"
  /\ Trim(c) # "" /\ Trim(t) # ""
  /\ verifying' = TRUE
  /\ verdict' = Seed(c, t)
  /\ sess' = [sess EXCEPT ![s] = [@ EXCEPT !.pc = "awaiting",
                                           !.seed = Seed(c, t)]]
  /\ UNCHANGED <<mounted, storeVars, error, loading, mountFetch>>

\* <button onClick={runVerification} disabled={verifying}>
Disabled == verifying

FreeSession(s) ==
  /\ sess[s].pc = "idle"
  /\ \A r \in DOMAIN sess : r < s => sess[r].pc # "idle"

\* the blank input seeding the Verdict all the same
RunVerificationInvalidSeeds(c, t) ==
  /\ mounted
  /\ ~Disabled
  /\ ~Running
  /\ Trim(c) = "" \/ Trim(t) = ""
  /\ error' = MsgMissingInput
  /\ verdict' = Seed(c, t)
  /\ UNCHANGED <<mounted, storeVars, loading, verifying, mountFetch, sess>>

RunVerificationInvalid(c, t) ==
  /\ mounted
  /\ ~Disabled
  /\ ~Running
  /\ Trim(c) = "" \/ Trim(t) = ""
  /\ error' = MsgMissingInput
  /\ UNCHANGED <<mounted, storeVars, verdict, loading, verifying, mountFetch, sess>>

RunVerification(s, c, t) ==
  /\ mounted
  /\ ~Disabled
  /\ ~Running
  /\ FreeSession(s)
  /\ Trim(c) # "" /\ Trim(t) # ""
  /\ verifying' = TRUE
  /\ error' = NoError
  /\ verdict' = Seed(c, t)
  /\ sess' = [sess EXCEPT ![s] = [@ EXCEPT !.pc = "awaiting",
                                           !.seed = Seed(c, t)]]
  /\ UNCHANGED <<mounted, storeVars, loading, mountFetch>>

\* err.detail || 'Verification failed'; res.json() throws on a body that
\* is not JSON and the catch block sets the connection message
ErrorMessage(errBody) ==
  IF ~errBody.json THEN MsgConnect
  ELSE IF Falsy(errBody.detail) THEN MsgVerificationFailed
  ELSE errBody.detail

\* if (!res.ok) { const err = await res.json(); ... }
ResponseNotOk(s, errBody) ==
  /\ sess[s].pc = "awaiting"
  /\ ~Running
  /\ error' = Shown(error, ErrorMessage(errBody))
  /\ verifying' = Shown(verifying, FALSE)
  /\ sess' = [sess EXCEPT ![s] = Ended("error")]
  /\ UNCHANGED <<mounted, storeVars, verdict, loading, mountFetch>>

\* fetch rejects
FetchThrows(s) ==
  /\ sess[s].pc = "awaiting"
  /\ ~Running
  /\ error' = Shown(error, MsgConnect)
  /\ verifying' = Shown(verifying, FALSE)
  /\ sess' = [sess EXCEPT ![s] = Ended("error")]
  /\ UNCHANGED <<mounted, storeVars, verdict, loading, mountFetch>>

\* res.ok but res.body is null
ResponseNoBody(s) ==
  /\ sess[s].pc = "awaiting"
  /\ ~Running
  /\ error' = Shown(error, MsgNoReader)
  /\ verifying' = Shown(verifying, FALSE)
  /\ sess' = [sess EXCEPT ![s] = Ended("error")]
  /\ UNCHANGED <<mounted, storeVars, verdict, loading, mountFetch>>

ResponseOk(s, text) ==
  /\ sess[s].pc = "awaiting"
  /\ ~Running
  /\ sess' = [sess EXCEPT ![s] = [@ EXCEPT !.pc = "read", !.sent = text,
                                           !.body = text, !.buffer = <<>>]]
  /\ UNCHANGED <<mounted, storeVars, verdict, loading, verifying, error, mountFetch>>

RetainedNothing(lines) == <<>>

\* buffer = lines.pop() || ''
Retained(lines) == Last(lines)

\* reader.read() resolves with the next n characters of the body:
\* buffer += chunk; lines = buffer.split('\n\n'); buffer = lines.pop()
ReadChunk(s) ==
  /\ sess[s].pc = "read"
  /\ ~Running
  /\ \E n \in 1..Len(sess[s].body) :
       LET value == SubSeq(sess[s].body, 1, n)
           lines == Split(sess[s].buffer \o value)
       IN sess' = [sess EXCEPT ![s] =
                     [@ EXCEPT !.body = SubSeq(@, n + 1, Len(@)),
                               !.buffer = Retained(lines),
                               !.lines = AllButLast(lines),
                               !.pc = IF Len(lines) > 1 THEN "lines"
                                      ELSE "read"]]
  /\ UNCHANGED <<mounted, storeVars, verdict, loading, verifying, error, mountFetch>>

\* one iteration of the for loop over the extracted lines
ProcessLine(s) ==
  /\ sess[s].pc = "lines"
  /\ LET line == Head(sess[s].lines)
     IN /\ verdict' = Shown(verdict, ApplyLine(verdict, line))
        /\ sess' = [sess EXCEPT ![s] =
                      [@ EXCEPT !.lines = Tail(@),
                                !.extracted = Append(@, line),
                                !.pc = IF Len(sess[s].lines) > 1 THEN "lines"
                                       ELSE "read"]]
  /\ UNCHANGED <<mounted, storeVars, loading, verifying, error, mountFetch>>

\* the clean close leaving the flag set
ReadDoneKeepsFlag(s) ==
  /\ sess[s].pc = "read"
  /\ ~Running
  /\ sess[s].body = <<>>
  /\ sess' = [sess EXCEPT ![s] = Ended("success")]
  /\ UNCHANGED <<mounted, storeVars, verdict, loading, verifying, error,
                 mountFetch>>

\* the close parsing what is left in the buffer
ReadDoneFlushes(s) ==
  /\ sess[s].pc = "read"
  /\ ~Running
  /\ sess[s].body = <<>>
  /\ verifying' = Shown(verifying, FALSE)
  /\ verdict' = Shown(verdict, ApplyLine(verdict, sess[s].buffer))
  /\ sess' = [sess EXCEPT ![s] = Ended("success")]
  /\ UNCHANGED <<mounted, storeVars, loading, error, mountFetch>>

\* reader.read() resolves with done: break, then finally
ReadDone(s) ==
  /\ sess[s].pc = "read"
  /\ ~Running
  /\ sess[s].body = <<>>
  /\ verifying' = Shown(verifying, FALSE)
  /\ sess' = [sess EXCEPT ![s] = Ended("success")]
  /\ UNCHANGED <<mounted, storeVars, verdict, loading, error, mountFetch>>

\* the catch block throwing away what the session built
ReadThrowsReseed(s) ==
  /\ sess[s].pc = "read"
  /\ ~Running
  /\ error' = Shown(error, MsgConnect)
  /\ verifying' = Shown(verifying, FALSE)
  /\ verdict' = Shown(verdict, sess[s].seed)
  /\ sess' = [sess EXCEPT ![s] = Ended("error")]
  /\ UNCHANGED <<mounted, storeVars, loading, mountFetch>>

\* reader.read() rejects: catch, then finally
ReadThrows(s) ==
  /\ sess[s].pc = "read"
  /\ ~Running
  /\ error' = Shown(error, MsgConnect)
  /\ verifying' = Shown(verifying, FALSE)
  /\ sess' = [sess EXCEPT ![s] = Ended("error")]
  /\ UNCHANGED <<mounted, storeVars, verdict, loading, mountFetch>>

\* the component is unmounted; no effect of Home returns a cleanup
Unmount ==
  /\ mounted
  /\ ~Running
  /\ mounted' = FALSE
  /\ UNCHANGED <<storeVars, verdict, loading, verifying, error, mountFetch,
                 sess>>

\* the page over its lifetime: verification requests one after another
Next ==
  \/ \E data \in StoredVerdicts : FetchVerdictOk(data)
  \/ FetchVerdictNone
  \/ \E c \in ClaimInputs, t \in TruthInputs : RunVerificationInvalid(c, t)
  \/ \E s \in DOMAIN sess, c \in ClaimInputs, t \in TruthInputs :
       RunVerification(s, c, t)
  \/ \E s \in DOMAIN sess, errBody \in ErrorBodies : ResponseNotOk(s, errBody)
  \/ \E s \in DOMAIN sess : FetchThrows(s)
  \/ \E s \in DOMAIN sess : ResponseNoBody(s)
  \/ \E s \in DOMAIN sess, text \in ShortBodies : ResponseOk(s, text)
  \/ \E s \in DOMAIN sess : ReadChunk(s)
  \/ \E s \in DOMAIN sess : ProcessLine(s)
  \/ \E s \in DOMAIN sess : ReadDone(s)
  \/ \E s \in DOMAIN sess : ReadThrows(s)

Spec == Init /\ [][Next]_vars

\* one verification request, every body the jury can stream
InitStream ==
  /\ mounted = TRUE
  /\ StoreInit
  /\ verdict = Null
  /\ loading = TRUE
  /\ verifying = FALSE
  /\ error = NoError
  /\ mountFetch = "pending"
  /\ sess = NoSessions(1)

NextStream ==
  \/ \E data \in StoredVerdicts : FetchVerdictOk(data)
  \/ FetchVerdictNone
  \/ \E c \in ClaimInputs, t \in TruthInputs : RunVerificationInvalid(c, t)
  \/ \E s \in DOMAIN sess, c \in ClaimInputs, t \in TruthInputs :
       RunVerification(s, c, t)
  \/ \E s \in DOMAIN sess, errBody \in ErrorBodies : ResponseNotOk(s, errBody)
  \/ \E s \in DOMAIN sess : FetchThrows(s)
  \/ \E s \in DOMAIN sess : ResponseNoBody(s)
  \/ \E s \in DOMAIN sess, text \in ServerBodies : ResponseOk(s, text)
  \/ \E s \in DOMAIN sess : ReadChunk(s)
  \/ \E s \in DOMAIN sess : ProcessLine(s)
  \/ \E s \in DOMAIN sess : ReadDone(s)
  \/ \E s \in DOMAIN sess : ReadThrows(s)

SpecStream == InitStream /\ [][NextStream]_vars

\* one session whose transport answers, delivers, closes or fails in the
\* end, and whose loop body runs once a chunk has arrived
SessionStep ==
  \/ \E s \in DOMAIN sess, errBody \in ErrorBodies : ResponseNotOk(s, errBody)
  \/ \E s \in DOMAIN sess : FetchThrows(s)
  \/ \E s \in DOMAIN sess : ResponseNoBody(s)
  \/ \E s \in DOMAIN sess, text \in ShortBodies : ResponseOk(s, text)
  \/ \E s \in DOMAIN sess : ReadChunk(s)
  \/ \E s \in DOMAIN sess : ProcessLine(s)
  \/ \E s \in DOMAIN sess : ReadDone(s)
  \/ \E s \in DOMAIN sess : ReadThrows(s)

SpecLive == InitStream /\ [][Next]_vars /\ WF_vars(SessionStep)

\* the page torn down at any moment of a verification request
NextTeardown ==
  \/ \E data \in StoredVerdicts : FetchVerdictOk(data)
  \/ FetchVerdictNone
  \/ \E c \in ClaimInputs, t \in TruthInputs : RunVerificationInvalid(c, t)
  \/ \E s \in DOMAIN sess, c \in ClaimInputs, t \in TruthInputs :
       RunVerification(s, c, t)
  \/ \E s \in DOMAIN sess, errBody \in ErrorBodies : ResponseNotOk(s, errBody)
  \/ \E s \in DOMAIN sess : FetchThrows(s)
  \/ \E s \in DOMAIN sess : ResponseNoBody(s)
  \/ \E s \in DOMAIN sess, text \in ShortBodies : ResponseOk(s, text)
  \/ \E s \in DOMAIN sess : ReadChunk(s)
  \/ \E s \in DOMAIN sess : ProcessLine(s)
  \/ \E s \in DOMAIN sess : ReadDone(s)
  \/ \E s \in DOMAIN sess : ReadThrows(s)
  \/ Unmount

SpecTeardown == InitStream /\ [][NextTeardown]_vars

\* the consumer loop alone, on arbitrary text
InitFraming ==
  /\ mounted = TRUE
  /\ StoreInit
  /\ verdict = Seed("c1", "t1")
  /\ loading = FALSE
  /\ verifying = TRUE
  /\ error = NoError
  /\ mountFetch = "done"
  /\ \E text \in FramingBodies :
       sess = [s \in 1..1 |->
                 [IdleSession EXCEPT !.pc = "read", !.sent = text,
                                     !.body = text,
                                     !.seed = Seed("c1", "t1")]]

NextFraming ==
  \/ \E s \in DOMAIN sess : ReadChunk(s)
  \/ \E s \in DOMAIN sess : ProcessLine(s)
  \/ \E s \in DOMAIN sess : ReadDone(s)

SpecFraming == InitFraming /\ [][NextFraming]_vars

\* ------------------------------------------------- the store (route.ts)
RequiredFields == {"claim", "truth", "conversation", "summary", "decision"}

\* a Verdict with an empty transcript: [] is truthy
VQuiet == [V1 EXCEPT !.conversation = <<>>]

\* a Verdict whose summary is the empty string
VNoSummary == [V0 EXCEPT !.summary = ""]

\* request bodies: text that is not JSON, the JSON value null, and objects
\* with some of the required members absent
NotJson == [kind |-> "text", absent |-> {}, v |-> Null]
JsonNull == [kind |-> "null", absent |-> {}, v |-> Null]
Object(v, absent) == [kind |-> "object", absent |-> absent, v |-> v]

\* a Verdict with one text member set to the empty string
Blanked(v, f) == [v EXCEPT ![f] = ""]

TextFields == {"claim", "truth", "summary", "decision"}

PostBodies ==
  {NotJson, JsonNull}
    \cup {Object(v, {}) : v \in {V0, V1, VQuiet, VNoSummary}}
    \cup {Object(Blanked(V1, f), {}) : f \in TextFields}
    \cup {Object(Seed("c1", "t1"), {})}
    \cup {Object(V1, {f}) : f \in RequiredFields}
    \cup {Object(V0, RequiredFields)}

\* !body.f
FieldFalsy(b, f) ==
  \/ f \in b.absent
  \/ f # "conversation" /\ b.v[f] = ""

\* JSON.stringify(body, null, 2), and the text a write that failed half-way
\* leaves behind
Stringify(v) == [of |-> v, complete |-> TRUE]
Truncated(v) == [of |-> v, complete |-> FALSE]

\* JSON.parse(fileContent)
Parse(text) == IF text.complete THEN text.of ELSE ParseError

Written(v) == [exists |-> TRUE, content |-> Stringify(v)]

\* fs.writeFileSync: succeeds, throws leaving the file as it was, or throws
\* after the file was opened for writing
WriteOutcomes == {"ok", "throws", "truncates"}

WriteFile(outcome, v) ==
  CASE outcome = "ok" -> Written(v)
    [] outcome = "throws" -> file
    [] outcome = "truncates" -> [exists |-> TRUE, content |-> Truncated(v)]

MsgMissingFields ==
  "Missing required fields: claim, truth, conversation, summary, decision"
MsgInvalidJson == "Invalid JSON payload"
MsgNoVerdict == "No verdict available"
ReceivedBody == [success |-> TRUE, message |-> "Verdict received"]

Response(op, req, status, body) ==
  [op |-> op, req |-> req, status |-> status, body |-> body]

\* the memory copy taken before the body is validated
POSTStoresFirst(body, write) ==
  /\ latestVerdict' = IF body.kind = "object" THEN body.v ELSE latestVerdict
  /\ IF body.kind # "object"
       THEN /\ reply' = Response("POST", body, 400, [error |-> MsgInvalidJson])
            /\ UNCHANGED <<file, lastAccepted>>
       ELSE IF \E f \in RequiredFields : FieldFalsy(body, f)
         THEN /\ reply' =
                   Response("POST", body, 400, [error |-> MsgMissingFields])
              /\ UNCHANGED <<file, lastAccepted>>
         ELSE /\ file' = WriteFile(write, body.v)
              /\ lastAccepted' = body.v
              /\ reply' = Response("POST", body, 200, ReceivedBody)
  /\ UNCHANGED pageVars

\* a failed write of the file reported to the caller and the body dropped
POSTFailsWithWrite(body, write) ==
  /\ IF body.kind # "object"
       THEN /\ reply' = Response("POST", body, 400, [error |-> MsgInvalidJson])
            /\ UNCHANGED <<latestVerdict, file, lastAccepted>>
       ELSE IF \E f \in RequiredFields : FieldFalsy(body, f)
         THEN /\ reply' =
                   Response("POST", body, 400, [error |-> MsgMissingFields])
              /\ UNCHANGED <<latestVerdict, file, lastAccepted>>
         ELSE IF write = "ok"
           THEN /\ latestVerdict' = body.v
                /\ file' = WriteFile(write, body.v)
                /\ lastAccepted' = body.v
                /\ reply' = Response("POST", body, 200, ReceivedBody)
           ELSE /\ file' = WriteFile(write, body.v)
                /\ reply' =
                     Response("POST", body, 500, [error |-> MsgInvalidJson])
                /\ UNCHANGED <<latestVerdict, lastAccepted>>
  /\ UNCHANGED pageVars

\* the validation looking only for members that are absent
POSTChecksPresence(body, write) ==
  /\ IF body.kind # "object"
       THEN /\ reply' = Response("POST", body, 400, [error |-> MsgInvalidJson])
            /\ UNCHANGED <<latestVerdict, file, lastAccepted>>
       ELSE IF body.absent # {}
         THEN /\ reply' =
                   Response("POST", body, 400, [error |-> MsgMissingFields])
              /\ UNCHANGED <<latestVerdict, file, lastAccepted>>
         ELSE /\ latestVerdict' = body.v
              /\ file' = WriteFile(write, body.v)
              /\ lastAccepted' = body.v
              /\ reply' = Response("POST", body, 200, ReceivedBody)
  /\ UNCHANGED pageVars

\* POST /api/verdict: request.json() throws on text that is not JSON, and
\* reading a member of null throws; both reach the outer catch
POST(body, write) ==
  /\ IF body.kind # "object"
       THEN /\ reply' = Response("POST", body, 400, [error |-> MsgInvalidJson])
            /\ UNCHANGED <<latestVerdict, file, lastAccepted>>
       ELSE IF \E f \in RequiredFields : FieldFalsy(body, f)
         THEN /\ reply' =
                   Response("POST", body, 400, [error |-> MsgMissingFields])
              /\ UNCHANGED <<latestVerdict, file, lastAccepted>>
         ELSE /\ latestVerdict' = body.v
              /\ file' = WriteFile(write, body.v)
              /\ lastAccepted' = body.v
              /\ reply' = Response("POST", body, 200, ReceivedBody)
  /\ UNCHANGED pageVars

\* existsSync, readFileSync and JSON.parse all went through
Servable(readable) ==
  /\ file.exists
  /\ readable
  /\ Parse(file.content) # ParseError

\* the memory copy preferred to the file
GETMemoryFirst(readable) ==
  /\ reply' =
       IF latestVerdict # Null
         THEN Response("GET", [readable |-> readable], 200, latestVerdict)
         ELSE IF Servable(readable)
           THEN Response("GET", [readable |-> readable], 200,
                         Parse(file.content))
           ELSE Response("GET", [readable |-> readable], 404,
                         [error |-> MsgNoVerdict])
  /\ UNCHANGED <<pageVars, latestVerdict, file, lastAccepted>>

\* GET /api/verdict; readable is whether readFileSync returns the content
GET(readable) ==
  /\ reply' =
       IF Servable(readable)
         THEN Response("GET", [readable |-> readable], 200,
                       Parse(file.content))
         ELSE IF latestVerdict # Null
           THEN Response("GET", [readable |-> readable], 200, latestVerdict)
           ELSE Response("GET", [readable |-> readable], 404,
                         [error |-> MsgNoVerdict])
  /\ UNCHANGED <<pageVars, latestVerdict, file, lastAccepted>>

\* result.json as the server finds it when it starts: absent, written by
\* the jury's script, or left cut short
InitialFiles ==
  {NoFile, Written(V0), [exists |-> TRUE, content |-> Truncated(V0)]}

InitStore ==
  /\ mounted = TRUE
  /\ verdict = Null
  /\ loading = TRUE
  /\ verifying = FALSE
  /\ error = NoError
  /\ mountFetch = "pending"
  /\ sess = NoSessions(1)
  /\ latestVerdict = Null
  /\ file \in InitialFiles
  /\ reply = NoReply
  /\ lastAccepted = Null
  /\ requests = <<>>

NextStore ==
  \/ \E body \in PostBodies, write \in WriteOutcomes :
       POST(body, write) /\ UNCHANGED requests
  \/ \E readable \in BOOLEAN : GET(readable) /\ UNCHANGED requests

SpecStore == InitStore /\ [][NextStore]_vars

\* ---------------------------------------------- concurrent POSTs (route.ts)
\* the bodies of a batch: two complete Verdicts and one without summary
BatchBodies == {Object(V0, {}), Object(V1, {}), Object(V1, {"summary"})}

\* the handler was entered and awaits request.json(); overlapped records
\* that another request of the batch was awaiting too
Arrive(body) ==
  /\ Len(requests) < MaxRequests
  /\ requests' =
       Append(requests,
              [body |-> body, done |-> FALSE,
               overlapped |->
                 \E i \in DOMAIN requests : ~requests[i].done])
  /\ UNCHANGED <<pageVars, latestVerdict, file, reply, lastAccepted>>

\* the memory copy kept from the first accepted request
HandleFirstWins(i) ==
  /\ ~requests[i].done
  /\ requests' = [requests EXCEPT ![i].done = TRUE]
  /\ IF \E f \in RequiredFields : FieldFalsy(requests[i].body, f)
       THEN /\ reply' = Response("POST", requests[i].body, 400,
                                 [error |-> MsgMissingFields])
            /\ UNCHANGED <<latestVerdict, file, lastAccepted>>
       ELSE /\ latestVerdict' = IF latestVerdict = Null
                                  THEN requests[i].body.v ELSE latestVerdict
            /\ file' = Written(requests[i].body.v)
            /\ lastAccepted' = requests[i].body.v
            /\ reply' = Response("POST", requests[i].body, 200, ReceivedBody)
  /\ UNCHANGED pageVars

\* request.json() resolves and the rest of the handler, which holds no
\* await, runs to its return; the write of the file goes through
Handle(i) ==
  /\ ~requests[i].done
  /\ requests' = [requests EXCEPT ![i].done = TRUE]
  /\ POST(requests[i].body, "ok")

InitConcurrent == InitStore

NextConcurrent ==
  \/ \E body \in BatchBodies : Arrive(body)
  \/ \E i \in DOMAIN requests : Handle(i)

SpecConcurrent == InitConcurrent /\ [][NextConcurrent]_vars


\* ------------------------------------------------------------- rendering
PendingDecision == [pending |-> "Awaiting verdict..."]
PendingSummary == [pending |-> "Generating summary..."]

\* VerdictDisplay: the Final Decision card
DecisionCard(v, isStreaming) ==
  IF isStreaming THEN PendingDecision ELSE [badge |-> v.decision]

\* VerdictDisplay: the Summary card
SummaryCard(v, isStreaming) ==
  IF isStreaming /\ v.summary = "" THEN PendingSummary
  ELSE [text |-> v.summary]

VerdictDisplay(v, isStreaming) ==
  [decision |-> DecisionCard(v, isStreaming),
   summary |-> SummaryCard(v, isStreaming)]

\* Home renders VerdictDisplay only for a Verdict with a message, once the
\* load on mount is over
NoDisplay == [decision |-> Null, summary |-> Null]

Display ==
  IF verdict # Null /\ Len(verdict.conversation) > 0 /\ ~loading
    THEN VerdictDisplay(verdict, verifying)
    ELSE NoDisplay

\* ------------------------------------------------------------- properties
EventOfLine(line) == JSONParse(Slice(line, 6))

IsRecordOf(line, type) ==
  /\ StartsWith(line, Prefix)
  /\ EventOfLine(line) # ParseError
  /\ EventOfLine(line).type = type

IsMalformed(line) ==
  /\ StartsWith(line, Prefix)
  /\ EventOfLine(line) = ParseError

IsPrefixOf(a, b) == Len(a) <= Len(b) /\ SubSeq(b, 1, Len(a)) = a

Active(s) == sess[s].pc \in {"awaiting", "read", "lines"}
Streaming(s) == sess[s].pc \in {"read", "lines"}
HasEnded(s) == sess[s].pc \in {"success", "error"}

\* the step is session s applying the line at the head of its for loop
Applies(s) == sess[s].pc = "lines" /\ sess'[s] # sess[s]
CurrentLine(s) == Head(sess[s].lines)

\* the part of the body the reader has handed over so far
Consumed(s) ==
  SubSeq(sess[s].sent, 1, Len(sess[s].sent) - Len(sess[s].body))

\* the records one read of the whole text yields
WholeChunkLines(text) == AllButLast(Split(text))

RECURSIVE FoldLines(_, _)
FoldLines(prev, lines) ==
  IF lines = <<>> THEN prev
  ELSE FoldLines(ApplyLine(prev, Head(lines)), Tail(lines))

AgentPayloads(lines) == [i \in 1..Len(lines) |-> EventOfLine(lines[i]).data]

\* C1: however the text is cut into chunks, the records extracted so far,
\* the record retained in the buffer and the Verdict folded from them are
\* those one read of the whole consumed text gives.
C1_FramingBoundaryInvariant ==
  \A s \in DOMAIN sess :
    Streaming(s) =>
      /\ sess[s].extracted \o sess[s].lines = WholeChunkLines(Consumed(s))
      /\ sess[s].buffer = Last(Split(Consumed(s)))
      /\ verdict = FoldLines(sess[s].seed, sess[s].extracted)

\* a chunk ended between the two newlines of a delimiter, after a first
\* record had been extracted
C1_Witness ==
  \E s \in DOMAIN sess :
    /\ sess[s].pc = "read"
    /\ Len(sess[s].extracted) >= 1
    /\ sess[s].buffer # <<>> /\ Last(sess[s].buffer) = NL
    /\ sess[s].body # <<>> /\ Head(sess[s].body) = NL
    /\ StartsWith(sess[s].buffer, Prefix)

\* C2: while only well-formed agent records have been applied in a session,
\* the held conversation is the sequence of their payloads in arrival order.
C2_ConversationIsArrivalOrder ==
  \A s \in DOMAIN sess :
    (/\ Streaming(s)
     /\ sess[s].extracted # <<>>
     /\ \A i \in 1..Len(sess[s].extracted) :
          IsRecordOf(sess[s].extracted[i], "agent"))
      => /\ verdict # Null
         /\ verdict.conversation = AgentPayloads(sess[s].extracted)

\* C3: a session is seeded only after every earlier session has returned,
\* so no earlier session reads or applies an event under the new Verdict.
C3_OldSessionDetached ==
  \A s \in DOMAIN sess : \A r \in DOMAIN sess :
    (r < s /\ sess[s].pc # "idle") => HasEnded(r)

\* a second session is applying a record after the first one returned
C3_Witness ==
  /\ 2 \in DOMAIN sess
  /\ sess[2].pc = "lines"
  /\ HasEnded(1)
  /\ verdict = sess[2].seed

\* C4: applying a malformed record changes neither the Verdict, the error
\* message nor the streaming flag and leaves the session reading; each
\* agent record next to it appends exactly its one message.
C4_MalformedSkipped ==
  [][\A s \in DOMAIN sess :
       Applies(s) =>
         /\ IsMalformed(CurrentLine(s)) =>
              /\ verdict' = verdict
              /\ error' = error
              /\ verifying' = verifying
              /\ Streaming(s)'
         /\ (IsRecordOf(CurrentLine(s), "agent") /\ verdict # Null) =>
              verdict'.conversation =
                Append(verdict.conversation, EventOfLine(CurrentLine(s)).data)
    ]_vars

\* agent, malformed, agent: two messages held, no error, still streaming
C4_Witness ==
  \E s \in DOMAIN sess :
    /\ sess[s].pc = "read"
    /\ Len(sess[s].extracted) = 3
    /\ IsRecordOf(sess[s].extracted[1], "agent")
    /\ IsMalformed(sess[s].extracted[2])
    /\ IsRecordOf(sess[s].extracted[3], "agent")
    /\ verdict = [sess[s].seed EXCEPT !.conversation = <<M1, M2>>]
    /\ error = NoError
    /\ verifying

\* C5: applying a verdict record makes the held Verdict the record's payload.
C5_VerdictReplacesWholesale ==
  [][\A s \in DOMAIN sess :
       (Applies(s) /\ IsRecordOf(CurrentLine(s), "verdict")) =>
         verdict' = EventOfLine(CurrentLine(s)).data
    ]_vars

\* two agent records, then the verdict: the payload's two messages are held
C5_Witness ==
  \E s \in DOMAIN sess :
    /\ Len(sess[s].extracted) = 3
    /\ IsRecordOf(sess[s].extracted[1], "agent")
    /\ IsRecordOf(sess[s].extracted[2], "agent")
    /\ IsRecordOf(sess[s].extracted[3], "verdict")
    /\ verdict = V1
    /\ Len(verdict.conversation) = 2

\* C6 as stated: every step of a session leaves the previous conversation a
\* prefix of the new one.
C6_ConversationOnlyGrows ==
  [][\A s \in DOMAIN sess :
       (Applies(s) /\ verdict # Null) =>
         /\ verdict' # Null
         /\ IsPrefixOf(verdict.conversation, verdict'.conversation)
    ]_vars

\* C6 amended: every record other than a verdict record leaves the previous
\* conversation a prefix of the new one.
C6_GrowsUntilVerdict ==
  [][\A s \in DOMAIN sess :
       (/\ Applies(s)
        /\ verdict # Null
        /\ ~IsRecordOf(CurrentLine(s), "verdict")) =>
         /\ verdict' # Null
         /\ IsPrefixOf(verdict.conversation, verdict'.conversation)
    ]_vars

\* a second agent message was appended behind the first
C6_Witness ==
  \E s \in DOMAIN sess :
    /\ Streaming(s)
    /\ Len(sess[s].extracted) = 2
    /\ verdict = [sess[s].seed EXCEPT !.conversation = <<M1, M2>>]

ReceivedVerdict(s) ==
  \E i \in 1..Len(sess[s].extracted) :
    IsRecordOf(sess[s].extracted[i], "verdict")

\* C7: after a verdict record was applied in a session, no later record of
\* that session changes the held Verdict.
C7_VerdictIsTerminal ==
  [][\A s \in DOMAIN sess :
       (Applies(s) /\ ReceivedVerdict(s)) => verdict' = verdict
    ]_vars

\* C8: a held Verdict has one of the three decisions, and from seeding until
\* the session applies a verdict record the decision is uncertain.
C8_DecisionDefaultsUncertain ==
  /\ verdict # Null => verdict.decision \in Decisions
  /\ \A s \in DOMAIN sess :
       (Active(s) /\ ~ReceivedVerdict(s)) =>
         /\ verdict # Null
         /\ verdict.decision = "uncertain"

\* C9: a non-success response whose body carries a detail ends the session
\* with that detail as the error message, the streaming flag cleared and
\* the seeded Verdict held.
C9_DetailShownSeedKept ==
  [][\A s \in DOMAIN sess : \A errBody \in ErrorBodies :
       (/\ errBody.json
        /\ errBody.detail \notin {Undefined, ""}
        /\ ResponseNotOk(s, errBody)) =>
         /\ error' = errBody.detail
         /\ verifying' = FALSE
         /\ verdict' = sess[s].seed
    ]_vars

\* C10: a read that rejects sets the error message, clears the streaming
\* flag and leaves the held Verdict as it was before the failure.
C10_PartialStateKept ==
  [][\A s \in DOMAIN sess :
       (sess[s].pc = "read" /\ sess'[s].pc = "error") =>
         /\ error' = MsgConnect
         /\ verifying' = FALSE
         /\ verdict' = verdict
    ]_vars

\* the transport failed after one message had been appended
C10_Witness ==
  \E s \in DOMAIN sess :
    /\ sess[s].pc = "error"
    /\ error = MsgConnect
    /\ ~verifying
    /\ verdict # Null
    /\ verdict.conversation = <<M1>>
    /\ verdict.decision = "uncertain"

KnownTags == {"agent", "analysis", "verdict"}

IsUnknownRecord(line) ==
  /\ StartsWith(line, Prefix)
  /\ EventOfLine(line) # ParseError
  /\ EventOfLine(line).type \notin KnownTags

\* the step is session s leaving its read loop on a clean close
ClosesCleanly(s) == sess[s].pc = "read" /\ sess'[s].pc = "success"

\* the step is a call of runVerification that issues the request
Issues(s) == sess[s].pc = "idle" /\ sess'[s].pc = "awaiting"

\* C11: a clean close of a session that received no verdict record leaves
\* the held Verdict as it was, with decision uncertain and summary empty,
\* and no error message.
C11_CleanCloseKeepsPartial ==
  [][\A s \in DOMAIN sess :
       (ClosesCleanly(s) /\ ~ReceivedVerdict(s)) =>
         /\ verdict' = verdict
         /\ verdict' # Null
         /\ verdict'.decision = "uncertain"
         /\ verdict'.summary = ""
         /\ error' = NoError
    ]_vars

\* C12: an analysis record replaces the analysis field of a held Verdict
\* and nothing else; with no Verdict held it leaves the value absent.
C12_AnalysisReplacesOnlyAnalysis ==
  [][\A s \in DOMAIN sess :
       (Applies(s) /\ IsRecordOf(CurrentLine(s), "analysis")) =>
         verdict' = IF verdict = Null THEN Null
                    ELSE [verdict EXCEPT
                            !.analysis = EventOfLine(CurrentLine(s)).data]
    ]_vars

\* an agent record, then an analysis record: the message is still held
C12_Witness ==
  \E s \in DOMAIN sess :
    /\ Streaming(s)
    /\ Len(sess[s].extracted) = 2
    /\ IsRecordOf(sess[s].extracted[1], "agent")
    /\ IsRecordOf(sess[s].extracted[2], "analysis")
    /\ verdict = [sess[s].seed EXCEPT !.conversation = <<M1>>,
                                      !.analysis = A1]

\* a verdict record without data, then an analysis record: nothing is held
C12_WitnessAbsent ==
  \E s \in DOMAIN sess :
    /\ Streaming(s)
    /\ Len(sess[s].extracted) = 2
    /\ IsRecordOf(sess[s].extracted[2], "analysis")
    /\ verdict = Null

\* C13: a record with an unrecognised tag changes neither the Verdict, the
\* error message nor the streaming flag, and the session goes on reading.
C13_UnknownTagIgnored ==
  [][\A s \in DOMAIN sess :
       (Applies(s) /\ IsUnknownRecord(CurrentLine(s))) =>
         /\ verdict' = verdict
         /\ error' = error
         /\ verifying' = verifying
         /\ Streaming(s)'
    ]_vars

\* an unknown record, then an agent record whose message was appended
C13_Witness ==
  \E s \in DOMAIN sess :
    /\ Streaming(s)
    /\ Len(sess[s].extracted) = 2
    /\ IsUnknownRecord(sess[s].extracted[1])
    /\ IsRecordOf(sess[s].extracted[2], "agent")
    /\ verdict = [sess[s].seed EXCEPT !.conversation = <<M1>>]
    /\ error = NoError
    /\ verifying

\* C14: every issued verification request makes the held Verdict the fresh
\* seed of its inputs, whatever was held before.
C14_RequestSeedsFresh ==
  [][\A s \in DOMAIN sess :
       Issues(s) =>
         /\ verdict' = sess'[s].seed
         /\ \E c \in ClaimInputs, t \in TruthInputs :
              /\ Trim(c) # "" /\ Trim(t) # ""
              /\ verdict' = Seed(c, t)
    ]_vars

\* a second request has just been issued after a first session returned
C14_Witness ==
  /\ 2 \in DOMAIN sess
  /\ sess[2].pc = "awaiting"
  /\ HasEnded(1)
  /\ mountFetch = "done"
  /\ verdict = Seed("c1", "t1")

\* an error message a failed session set
SessionError(e) == e \notin {NoError, MsgMissingInput}

\* C19 as stated: a failed session's message changes only when a request is
\* issued, and issuing a request clears it.
C19_ErrorStaysUntilRequest ==
  [][/\ (SessionError(error) /\ error' # error) =>
          \E s \in DOMAIN sess : Issues(s)
     /\ \A s \in DOMAIN sess : Issues(s) => error' = NoError
    ]_vars

\* C19 amended: a failed session's message changes only by a call of
\* runVerification, which clears it when it issues a request and replaces
\* it with the validation message when claim or truth is blank; no record
\* of a session is applied while a message is held.
C19_ErrorStaysUntilNextCall ==
  [][/\ (SessionError(error) /\ error' # error) =>
          \/ (\E s \in DOMAIN sess : Issues(s)) /\ error' = NoError
          \/ error' = MsgMissingInput /\ sess' = sess
     /\ \A s \in DOMAIN sess : Issues(s) => error' = NoError
     /\ \A s \in DOMAIN sess : Applies(s) => error = NoError
    ]_vars

\* the first session failed and the second is applying a record with the
\* message cleared
C19_Witness ==
  /\ 2 \in DOMAIN sess
  /\ sess[1].pc = "error"
  /\ sess[2].pc = "lines"
  /\ error = NoError

\* the step is session s taking a chunk from the reader
Reads(s) == sess[s].pc = "read" /\ sess'[s].body # sess[s].body

\* C20: once the component is unmounted, no session reads from its
\* transport and no record changes the held Verdict.
C20_TeardownStopsReading ==
  [][~mounted =>
       /\ \A s \in DOMAIN sess : ~Reads(s)
       /\ verdict' = verdict
    ]_vars

\* the last request handled was a POST / a GET
Posted == reply.op = "POST"
Got == reply.op = "GET"

\* the object lacks one of the five members, or the body is not an object
Lacks(b) == b.kind = "object" /\ b.absent # {}
InvalidJson(b) == b.kind # "object"

\* every required member is there and none is falsy
Complete(b) ==
  /\ b.kind = "object"
  /\ b.absent = {}
  /\ \A f \in {"claim", "truth", "summary", "decision"} : b.v[f] # ""

\* the file on disk can be read and holds JSON
FileCopyReadable ==
  /\ file.exists
  /\ reply.req.readable
  /\ file.content.complete

\* C15: a GET that follows an accepted POST answers with the Verdict of
\* the most recently accepted POST, whatever happened to the write of the
\* file mirror.
C15_GetReturnsLastAccepted ==
  (Got /\ lastAccepted # Null) =>
    /\ reply.status = 200
    /\ reply.body = lastAccepted

\* C16: a POST whose body lacks one of claim, truth, conversation, summary,
\* decision, or is not valid JSON, is answered with status 400 and a body
\* with an error member, and leaves the memory copy and the file as they
\* were.
C16_RejectedPostChangesNothing ==
  [][(reply'.op = "POST" /\ (Lacks(reply'.req) \/ InvalidJson(reply'.req))) =>
       /\ reply'.status = 400
       /\ "error" \in DOMAIN reply'.body
       /\ latestVerdict' = latestVerdict
       /\ file' = file
    ]_vars

C16_Witness ==
  /\ Posted
  /\ Lacks(reply.req)
  /\ reply.status = 400
  /\ latestVerdict = V0
  /\ file = Written(V0)

\* C17: a complete POST whose write of the file fails is still answered
\* with status 200 and success true, and the memory copy is then the posted
\* Verdict.
C17_WriteFailureStillAccepted ==
  [][(/\ reply'.op = "POST"
      /\ Complete(reply'.req)
      /\ file' # Written(reply'.req.v)) =>
       /\ reply'.status = 200
       /\ reply'.body.success = TRUE
       /\ latestVerdict' = reply'.req.v
    ]_vars

C17_Witness ==
  /\ Posted
  /\ reply.status = 200
  /\ reply.req.v = V1
  /\ latestVerdict = V1
  /\ file = Written(V0)

\* C18: a GET answers 404 exactly when there is neither a readable file
\* copy nor a memory copy; otherwise it answers with the file copy when the
\* file exists, can be read and parses, and with the memory copy when not.
C18_GetPrefersFileCopy ==
  Got =>
    /\ reply.status = 404 <=> (~FileCopyReadable /\ latestVerdict = Null)
    /\ FileCopyReadable =>
         reply.status = 200 /\ reply.body = file.content.of
    /\ (~FileCopyReadable /\ latestVerdict # Null) =>
         reply.status = 200 /\ reply.body = latestVerdict

C18_Witness ==
  /\ Got
  /\ FileCopyReadable
  /\ latestVerdict # Null
  /\ file.content.of # latestVerdict
  /\ reply.status = 200

C18_WitnessMemory ==
  /\ Got
  /\ file.exists
  /\ ~FileCopyReadable
  /\ reply.body = latestVerdict

C18_WitnessNone ==
  /\ Got
  /\ file.exists
  /\ reply.status = 404

SomeActive == \E s \in DOMAIN sess : Active(s)

\* C21: in every state where a session is streaming and the held
\* Verdict's decision is uncertain, a pending indicator stands in place of
\* the decision badge; where a session is streaming and the summary is
\* empty, a pending indicator stands in place of the summary text.
C21_PendingWhileStreaming ==
  (SomeActive /\ verdict # Null) =>
    /\ verdict.decision = "uncertain" => Display.decision = PendingDecision
    /\ verdict.summary = "" => Display.summary = PendingSummary

\* VerdictDisplay itself: wherever Home renders the Verdict (it holds at
\* least one message and the load on mount is over), the indicators stand
\* in place of the badge and of the summary.
RenderedShowsPending ==
  (SomeActive /\ verdict # Null /\ Display # NoDisplay) =>
    /\ verdict.decision = "uncertain" => Display.decision = PendingDecision
    /\ verdict.summary = "" => Display.summary = PendingSummary

\* C22: with a single session, the flag verifying is true while the
\* session awaits its response or streams and false once it has ended; and
\* a session whose transport answers, closes or fails in the end reaches an
\* ended state with the flag false, whatever the exit path.
C22_FlagFollowsSession ==
  /\ [](\A s \in DOMAIN sess :
          /\ Active(s) => verifying
          /\ HasEnded(s) => ~verifying)
  /\ \A s \in 1..1 : Active(s) ~> (HasEnded(s) /\ ~verifying)

C22_Witness ==
  /\ sess[1].pc = "success"
  /\ verdict # Null
  /\ Len(verdict.conversation) = 2
  /\ ~verifying

C22_WitnessError == sess[1].pc = "error" /\ ~verifying

\* the batch is over: some request arrived and every request was answered
BatchOver ==
  /\ requests # <<>>
  /\ \A i \in DOMAIN requests : requests[i].done

AcceptedOfBatch ==
  {requests[i].body.v : i \in {j \in DOMAIN requests :
                                 Complete(requests[j].body)}}

\* C23: whatever the interleaving of concurrent POSTs whose writes of the
\* file succeed, once all of them are answered and one was accepted, the
\* memory copy and the file hold the same Verdict, and it is the Verdict of
\* one request of the batch.
C23_LastWriteWins ==
  (BatchOver /\ AcceptedOfBatch # {}) =>
    /\ latestVerdict \in AcceptedOfBatch
    /\ file = Written(latestVerdict)

C23_Witness ==
  /\ BatchOver
  /\ \E i \in DOMAIN requests : requests[i].overlapped
  /\ Cardinality(AcceptedOfBatch) = 2
  /\ latestVerdict = requests[1].body.v
  /\ file = Written(latestVerdict)

\* C24: when the stream closes, what is left in the buffer without the
\* blank line after it is neither parsed nor applied: the close leaves the
\* held Verdict as it was and no step of the session applies a line other
\* than one the delimiter ended.
C24_UnterminatedNeverApplied ==
  [][\A s \in DOMAIN sess :
       /\ (ClosesCleanly(s) /\ sess[s].buffer # <<>>) => verdict' = verdict
       /\ Applies(s) =>
            \E i \in 1..Len(WholeChunkLines(sess[s].sent)) :
              /\ WholeChunkLines(sess[s].sent)[i] = CurrentLine(s)
              /\ i = Len(sess[s].extracted) + 1
    ]_vars

C24_Witness ==
  /\ sess[1].pc = "read"
  /\ sess[1].body = <<>>
  /\ IsRecordOf(sess[1].buffer, "verdict")
  /\ sess[1].extracted # <<>>
  /\ verdict # Null
  /\ verdict.decision = "uncertain"

\* C25: runVerification called with a claim or a truth that is empty or
\* only white space sets the error message and nothing else: no request is
\* issued (every request issued carries a claim and a truth that are not
\* blank), the held Verdict is unchanged and the flag verifying stays false.
C25_BlankInputOnlySetsError ==
  [][/\ (error' = MsgMissingInput /\ error # MsgMissingInput) =>
          /\ sess' = sess
          /\ verdict' = verdict
          /\ ~verifying /\ ~verifying'
          /\ loading' = loading
     /\ \A s \in DOMAIN sess :
          Issues(s) =>
            /\ Trim(sess'[s].seed.claim) # ""
            /\ Trim(sess'[s].seed.truth) # ""
    ]_vars

C25_Witness ==
  /\ error = MsgMissingInput
  /\ verdict # Null
  /\ Len(verdict.conversation) > 0
  /\ sess[1].pc = "success"
  /\ sess[2].pc = "idle"
  /\ ~verifying

\* the object holds claim, truth, summary or decision as the empty string
HasEmptyText(b) ==
  /\ b.kind = "object"
  /\ \E f \in {"claim", "truth", "summary", "decision"} :
       f \notin b.absent /\ b.v[f] = ""

\* C26: a POST whose body holds claim, truth, summary or decision as the
\* empty string is answered with status 400 and not stored; so the store
\* never holds the consumer's seeded or partial Verdict, whose summary is
\* empty.
C26_EmptyTextRejected ==
  [][/\ (reply'.op = "POST" /\ HasEmptyText(reply'.req)) =>
          /\ reply'.status = 400
          /\ latestVerdict' = latestVerdict
          /\ file' = file
     /\ latestVerdict' # Null => latestVerdict'.summary # ""
    ]_vars

C26_Witness ==
  /\ Posted
  /\ reply.req.kind = "object"
  /\ reply.req.v = Seed("c1", "t1")
  /\ reply.status = 400
  /\ latestVerdict = V1

====
